---- MODULE Spec2Model ----
(***************************************************************************)
(* Model of the ECC CSR generator server (src/unnamed/part_001): the five  *)
(* POST handlers, the staging directory each one works in, and the openssl *)
(* commands they run.  A handler is an async function: it runs             *)
(* synchronously up to an `await execAsync(...)`, the external command     *)
(* then runs as a process of its own, and the handler resumes later; other *)
(* requests' steps may come in between.                                    *)
(***************************************************************************)
EXTENDS Integers, Sequences, FiniteSets, TLC

\* ------------------------------------------------------------- bounds
\* Requests the server receives in one behaviour.
NReq == 2
\* Requests arrive while Date.now() is in 0..MaxClock.
MaxClock == 4
\* Longest subjectAltNames list of the SAN specification.
MaxSan == 2

Reqs == 1..NReq

\* ------------------------------------------------------------- values
\* A field the request body does not carry (JavaScript's undefined).
Undef == "~undefined"
\* A test that takes only undefined for missing, `x === undefined`.
FalsyUndefinedOnly(x) == x = Undef

\* !x of JavaScript, for a string-or-undefined x.
Falsy(x) == x = Undef \/ x = ""

None == [t |-> "none"]
Junk == [t |-> "junk"]
\* What `openssl ... -out f` leaves in f when it fails after opening it.
Empty == [t |-> "empty"]

\* Keys: one generated by `openssl ecparam -genkey` in request r, or one
\* that exists outside the server (a CA's key, a requester's key).
GenKey(r) == [t |-> "key", src |-> "gen", n |-> r]
ExtKey(n) == [t |-> "key", src |-> "ext", n |-> n]
PubOf(k) == [t |-> "pub", src |-> k.src, n |-> k.n]

NoExts == [isCA |-> "absent", keyUsage |-> {}, eku |-> {}, san |-> <<>>]

\* ---------------------------------------------------- white space, trim
\* A SAN value is a sequence of pieces: " " is a white space character, any
\* other piece a run of characters that are not white space ("a", "10.0.0.1").
RECURSIVE TrimLeft(_)
TrimLeft(s) == IF s # <<>> /\ Head(s) = " " THEN TrimLeft(Tail(s)) ELSE s

RECURSIVE TrimRight(_)
TrimRight(s) ==
    IF s # <<>> /\ s[Len(s)] = " " THEN TrimRight(SubSeq(s, 1, Len(s) - 1)) ELSE s

\* String.prototype.trim
trim(s) == TrimRight(TrimLeft(s))

\* ------------------------------------------------------- SAN rendering
\* san => san.value && san.value.trim()
sanKept(san) == san.value # <<>> /\ trim(san.value) # <<>>

\* subjectAltNames.filter(san => san.value && san.value.trim())
RECURSIVE filter(_)
filter(list) ==
    IF list = <<>> THEN <<>>
    ELSE (IF sanKept(Head(list)) THEN <<Head(list)>> ELSE <<>>) \o filter(Tail(list))

\* The key openssl reads for one alt_names line, `${san.type}.${index + 1}`:
\* index is the entry's position in the filtered list (0-based in the code).
sanIndex(kept, i) == i

\* subjectAltNames.filter(...).map((san, index) => `${san.type}.${index + 1} = ...`)
sanEntries(subjectAltNames) ==
    LET kept == filter(subjectAltNames)
    IN [i \in 1..Len(kept) |->
           [type |-> kept[i].type, index |-> sanIndex(kept, i), value |-> trim(kept[i].value)]]

\* let sanSection = ''; if (list.length > 0) { ...; if (sanEntries) sanSection = ... }
\* <<>> stands for the empty string: no [ alt_names ] section is written.
sanSection(subjectAltNames) ==
    IF Len(subjectAltNames) > 0 THEN sanEntries(subjectAltNames) ELSE <<>>

\* ${subjectAltNames && subjectAltNames.length > 0 ? 'subjectAltName = @alt_names' : ''}
sanClause(subjectAltNames) == Len(subjectAltNames) > 0

\* ---------------------------------------------------- distinguished names
\* A config line `${v ? `ATTR = ${v}` : ''}`: present only for a truthy value.
Opt(attr, v) == IF Falsy(v) THEN <<>> ELSE <<[attr |-> attr, value |-> v]>>
\* A config line `ATTR = ${v}`, written whatever v is.
Line(attr, v) == <<[attr |-> attr, value |-> v]>>
\* A default written `name || 'value'`: it replaces an empty string as well.
DefaultWhenFalsy(v, d) == IF Falsy(v) THEN d ELSE v

\* A destructuring default, `name = 'value'`: it applies to undefined only.
Default(v, d) == IF v = Undef THEN d ELSE v

\* [ req_distinguished_name ] of generate-csr
clientDN(body) ==
    Line("C", body.country) \o Line("ST", body.state) \o Line("L", body.locality)
    \o Line("O", body.organization) \o Opt("OU", body.organizationalUnit)
    \o Line("CN", body.commonName) \o Opt("serialNumber", body.serialNumber)
    \o Opt("emailAddress", body.email)

\* [ req_distinguished_name ] of generate-broker-csr
brokerDN(body) ==
    Opt("C", body.country) \o Opt("ST", body.state) \o Opt("L", body.locality)
    \o Opt("O", body.organization) \o Opt("OU", body.organizationalUnit)
    \o Line("CN", body.commonName) \o Opt("emailAddress", body.email)

\* [ req_distinguished_name ] of generate-root-ca, after the defaults
caDN(body) ==
    Line("C", Default(body.country, "US"))
    \o Line("ST", Default(body.state, "California"))
    \o Line("L", Default(body.locality, "San Francisco"))
    \o Line("O", Default(body.organization, "MQTT Organization"))
    \o Opt("OU", body.organizationalUnit)
    \o Line("CN", Default(body.commonName, "MQTT Root CA"))
    \o Opt("emailAddress", body.email)

\* ------------------------------------------------------- config files
\* The text a handler writes to its openssl config file: the subject lines,
\* the extension lines of its one extension section, whether that section
\* holds `subjectAltName = @alt_names`, and the lines of [ alt_names ].
Config(dn, isCA, keyUsage, eku, clause, altNames) ==
    [t |-> "cnf", dn |-> dn, isCA |-> isCA, keyUsage |-> keyUsage, eku |-> eku,
     sanClause |-> clause, altNames |-> altNames]

\* generate-csr: [ v3_req ] keyUsage, extendedKeyUsage
clientCsrConfig(body) ==
    Config(clientDN(body), "absent", {"digitalSignature", "keyAgreement"},
           {"clientAuth"}, FALSE, <<>>)

\* generate-broker-csr: [ v3_req ] keyUsage, extendedKeyUsage, SAN
brokerCsrConfig(body) ==
    Config(brokerDN(body), "absent",
           {"digitalSignature", "keyEncipherment", "keyAgreement"}, {"serverAuth"},
           sanClause(body.subjectAltNames), sanSection(body.subjectAltNames))

\* generate-root-ca: [ v3_ca ] basicConstraints, keyUsage
caConfig(body) ==
    Config(caDN(body), "TRUE", {"digitalSignature", "cRLSign", "keyCertSign"},
           {}, FALSE, <<>>)

\* sign-client-cert: [ v3_client ]
clientSigningConfig ==
    Config(<<>>, "FALSE", {"digitalSignature", "keyAgreement"}, {"clientAuth"},
           FALSE, <<>>)

\* sign-broker-cert: [ v3_broker ]
brokerSigningConfig(body) ==
    Config(<<>>, "FALSE", {"digitalSignature", "keyEncipherment", "keyAgreement"},
           {"serverAuth"}, sanClause(body.subjectAltNames),
           sanSection(body.subjectAltNames))

\* ---------------------------------------------------------- openssl
\* The general-name types openssl's subjectAltName accepts as a line's key.
SupportedSanTypes == {"DNS", "IP", "email", "URI", "RID", "dirName", "otherName"}

\* openssl reads a section as name = value pairs: of two lines with the same
\* name ("DNS.1" twice) only the last one counts.
altNamesRead(altNames) ==
    LET last(i) == \A j \in (i + 1)..Len(altNames) :
                      ~(altNames[j].type = altNames[i].type
                        /\ altNames[j].index = altNames[i].index)
        RECURSIVE rd(_)
        rd(i) == IF i > Len(altNames) THEN <<>>
                 ELSE (IF last(i) THEN <<<<altNames[i].type, altNames[i].value>>>>
                       ELSE <<>>) \o rd(i + 1)
    IN rd(1)

\* Whether openssl reads a value as an IP address (a2i_IPADDRESS): of the
\* values of this model, the dotted quad is one and the host names are not.
IsIpAddress(value) == value = <<"10.0.0.1">>

\* Whether openssl accepts the extension section of a config: a
\* `subjectAltName = @alt_names` needs an [ alt_names ] section, each of
\* its lines a supported type, and each IP line an IP address.
extensionsOk(cnf) ==
    cnf.sanClause =>
        /\ cnf.altNames # <<>>
        /\ \A i \in 1..Len(cnf.altNames) :
              /\ cnf.altNames[i].type \in SupportedSanTypes
              /\ cnf.altNames[i].type = "IP" => IsIpAddress(cnf.altNames[i].value)

\* The extensions openssl builds from the extension section of a config.
extensionsOf(cnf) ==
    [isCA |-> cnf.isCA, keyUsage |-> cnf.keyUsage, eku |-> cnf.eku,
     san |-> IF cnf.sanClause THEN altNamesRead(cnf.altNames) ELSE <<>>]

\* Whether openssl accepts the subject of a config: no attribute is empty.
subjectOk(cnf) == \A i \in 1..Len(cnf.dn) : cnf.dn[i].value # ""

\* `openssl ecparam -name ${curve}`: the curves openssl knows.
Curves == {"prime256v1", "secp384r1"}

\* ------------------------------------------------------------ requests
Ops == {"generate-csr", "generate-broker-csr", "generate-root-ca",
        "sign-client-cert", "sign-broker-cert"}

\* src/server.js is another version of the server, with one handler: its
\* POST /api/generate-csr is the operation of this name.
ServerJs == "generate-csr (server.js)"

\* The caller's side of a PEM field: absent (undefined or ''), or a text.
Absent(pem) == pem.t = "none"

\* A serial number openssl draws at random is written R(base): the base-th
\* draw of the behaviour.  R(base) + inc is a serial read from a serial file
\* and incremented inc times.  Two draws of the 159-bit random serial are
\* taken to differ, and by more than the increments made.
Serial(base, inc) == [base |-> base, inc |-> inc]

Cert(subject, issuer, pub, serial, exts, days) ==
    [t |-> "cert", subject |-> subject, issuer |-> issuer, pub |-> pub,
     serial |-> serial, exts |-> exts, days |-> days]

Csr(subject, pub, exts) == [t |-> "csr", subject |-> subject, pub |-> pub, exts |-> exts]

\* ------------------------------------------------------- request bodies
EmptyBody ==
    [curve |-> Undef, commonName |-> Undef, serialNumber |-> Undef,
     organization |-> Undef, organizationalUnit |-> Undef, country |-> Undef,
     state |-> Undef, locality |-> Undef, email |-> Undef,
     subjectAltNames |-> <<>>, validityDays |-> Undef,
     csr |-> None, caKey |-> None, caCert |-> None]

Device(cn) ==
    [EmptyBody EXCEPT !.commonName = cn, !.organization = "Acme", !.country = "US",
                      !.state = "CA", !.locality = "SF"]

San(type, value) == [type |-> type, value |-> value]

\* A CA that exists outside the server: its key is ExtKey(n).
CaName(n) == Line("CN", IF n = 1 THEN "ca-one" ELSE "ca-two")
CaProfile ==
    [isCA |-> "TRUE", keyUsage |-> {"digitalSignature", "cRLSign", "keyCertSign"},
     eku |-> {}, san |-> <<>>]
CaCert(n) == Cert(CaName(n), CaName(n), PubOf(ExtKey(n)), Serial(0, n), CaProfile, "3650")

\* A CSR whose requested extensions ask for everything a leaf must not get.
GreedyExts ==
    [isCA |-> "TRUE", keyUsage |-> {"keyCertSign", "cRLSign"},
     eku |-> {"serverAuth", "clientAuth"}, san |-> << <<"DNS", <<"e">> >> >>]
GreedyCsr == Csr(Line("O", "Evil") \o Line("CN", "mallory"), PubOf(ExtKey(3)), GreedyExts)
PlainCsr == Csr(Line("CN", "dev1"), PubOf(ExtKey(4)), NoExts)

Signing(csr, caKey, caCert) ==
    [EmptyBody EXCEPT !.csr = csr, !.caKey = caKey, !.caCert = caCert]

\* The request bodies of the server specification, per operation.
Bodies(op) ==
    CASE op \in {"generate-csr", ServerJs} ->
           {Device("dev1"),
            [Device("dev2") EXCEPT !.organizationalUnit = "ops", !.serialNumber = "42"],
            [Device("dev3") EXCEPT !.curve = "no-such-curve"],
            [Device("dev4") EXCEPT !.locality = Undef],
            Device(Undef), Device(""),
            [Device("dev5") EXCEPT !.organization = ""],
            [Device("dev6") EXCEPT !.country = Undef],
            [Device("dev7") EXCEPT !.state = ""]}
      [] op = "generate-broker-csr" ->
           {[EmptyBody EXCEPT !.commonName = "broker1",
                              !.subjectAltNames = <<San("DNS", <<"a">>)>>],
            [EmptyBody EXCEPT !.commonName = "broker2", !.organization = "Acme"],
            [EmptyBody EXCEPT !.organization = "Acme"],
            [EmptyBody EXCEPT !.commonName = ""]}
      [] op = "generate-root-ca" ->
           {EmptyBody, [EmptyBody EXCEPT !.commonName = "root2", !.validityDays = "30"],
            [EmptyBody EXCEPT !.commonName = ""]}
      [] op = "sign-client-cert" ->
           {Signing(GreedyCsr, ExtKey(1), CaCert(1)),
            Signing(PlainCsr, ExtKey(1), CaCert(1)),
            Signing(PlainCsr, ExtKey(2), CaCert(1)),
            Signing(Junk, ExtKey(1), CaCert(1)),
            Signing(PlainCsr, None, CaCert(1)),
            Signing(None, ExtKey(1), CaCert(1)),
            Signing(PlainCsr, ExtKey(1), None)}
      [] op = "sign-broker-cert" ->
           {[Signing(GreedyCsr, ExtKey(1), CaCert(1)) EXCEPT
                !.subjectAltNames = <<San("DNS", <<"b">>), San("IP", <<"10.0.0.1">>)>>],
            Signing(PlainCsr, ExtKey(2), CaCert(2)),
            Signing(PlainCsr, ExtKey(1), CaCert(2)),
            Signing(None, ExtKey(1), CaCert(1)),
            Signing(PlainCsr, None, CaCert(2)),
            Signing(PlainCsr, ExtKey(2), None)}

\* ---------------------------------------------------------------- state
VARIABLES
    clock,   \* Date.now()
    fs,      \* the temp directory: directory name -> file name -> file
    pc,      \* per request: "new", "await", "resume", "busy", "done"
    rq,      \* per request: its operation, body and staging directory
    cmd,     \* per request: the command it awaits, when it was started, and
             \* how far its process has got
    ret,     \* per request: the outcome of the last command it awaited
    loc,     \* per request: the handler's local variables
    resp,    \* per request: the response sent
    draws,   \* random serials openssl has drawn so far
    sanIn,   \* SAN specification: the subjectAltNames list of its requests
    dnIn,    \* subject specification: the identity fields of a request body
    dnOut    \* subject specification: the distinguished name built from them

vars == <<clock, fs, pc, rq, cmd, ret, loc, resp, draws, sanIn, dnIn, dnOut>>
serverVars == <<clock, fs, pc, rq, cmd, ret, loc, resp, draws>>
sanVars == <<sanIn>>
dnVars == <<dnIn, dnOut>>
\* The variables of the specifications of pure functions.
fnVars == <<sanVars, dnVars>>

\* ---------------------------------------------------------- file system
EmptyDir == [f \in {} |-> None]
File(r, content) == [by |-> r, c |-> content]

existsSync(F, d, f) == d \in DOMAIN F /\ f \in DOMAIN F[d]
\* What a reader finds at a path: None when there is no such file.
read(F, d, f) == IF existsSync(F, d, f) THEN F[d][f].c ELSE None

\* fs.mkdirSync(dir, { recursive: true }): no error when it exists.
mkdirSync(F, d) == IF d \in DOMAIN F THEN F ELSE (d :> EmptyDir) @@ F

\* A write to a path whose directory exists (the callers check that).
write(F, d, f, r, content) == [F EXCEPT ![d] = (f :> File(r, content)) @@ @]

unlink(F, d, f) == [F EXCEPT ![d] = [g \in (DOMAIN @) \ {f} |-> @[g]]]
rmdir(F, d) == [e \in (DOMAIN F) \ {d} |-> F[e]]

\* --------------------------------------------------------- error texts
ENOENT_open == "ENOENT: no such file or directory, open"
ENOENT_unlink == "ENOENT: no such file or directory, unlink"
ENOENT_rmdir == "ENOENT: no such file or directory, rmdir"
ENOTEMPTY_rmdir == "ENOTEMPTY: directory not empty, rmdir"
CommandFailed(c) == "Command failed: openssl " \o c

\* ----------------------------------------------------------- statements
\* One synchronous statement of a handler, on file f of its staging
\* directory.
Step(k, f) == [k |-> k, f |-> f, into |-> ""]

\* const <into> = fs.readFileSync(f, 'utf8')
ReadInto(f, into) == [k |-> "readFileSync", f |-> f, into |-> into]

\* fs.writeFileSync(f, data): the file is opened, which makes it or empties
\* it, and then the data is written to it.  A process that reads the file
\* in between finds it empty.
WriteFile(f) == <<Step("writeFileSync: open", f), Step("writeFileSync: write", f)>>

\* The statement s of request r's handler on file system F, with locals L and
\* the data the handler writes: the file system and the locals it leaves, and
\* the error it throws ("" when none).  Of all that runs beside the handler,
\* nothing removes a file, so the test and the removal of a guarded statement
\* are one step.
statement(F, L, r, d, s, data) ==
    LET Ok(G) == [fs |-> G, loc |-> L, err |-> ""]
        Throws(e) == [fs |-> F, loc |-> L, err |-> e]
    IN CASE s.k = "unlinkSync" ->
              IF existsSync(F, d, s.f) THEN Ok(unlink(F, d, s.f)) ELSE Throws(ENOENT_unlink)
         [] s.k = "if existsSync unlinkSync" ->
              IF existsSync(F, d, s.f) THEN Ok(unlink(F, d, s.f)) ELSE Ok(F)
         [] s.k = "rmdirSync" ->
              IF d \notin DOMAIN F THEN Throws(ENOENT_rmdir)
              ELSE IF DOMAIN F[d] # {} THEN Throws(ENOTEMPTY_rmdir)
              ELSE Ok(rmdir(F, d))
         [] s.k = "if existsSync rmdirSync" ->
              IF d \notin DOMAIN F THEN Ok(F)
              ELSE IF DOMAIN F[d] # {} THEN Throws(ENOTEMPTY_rmdir)
              ELSE Ok(rmdir(F, d))
         [] s.k = "writeFileSync: open" ->
              IF d \notin DOMAIN F THEN Throws(ENOENT_open) ELSE Ok(write(F, d, s.f, r, Empty))
         [] s.k = "writeFileSync: write" ->
              IF existsSync(F, d, s.f) THEN Ok(write(F, d, s.f, r, data)) ELSE Ok(F)
         [] s.k = "readFileSync" ->
              IF existsSync(F, d, s.f)
              THEN [fs |-> F, loc |-> [L EXCEPT ![s.into] = read(F, d, s.f)], err |-> ""]
              ELSE Throws(ENOENT_open)

\* The files each handler names in its staging directory.
paths(op) ==
    CASE op = "generate-csr" ->
           [key |-> "private-key.pem", csr |-> "csr.pem", cnf |-> "openssl.cnf"]
      [] op = ServerJs -> [key |-> "private-key.pem", csr |-> "csr.pem"]
      [] op = "generate-broker-csr" ->
           [key |-> "broker-private-key.pem", csr |-> "broker-csr.pem",
            cnf |-> "broker-openssl.cnf"]
      [] op = "generate-root-ca" ->
           [caKey |-> "ca-key.pem", caCert |-> "ca-cert.pem", cnf |-> "ca-openssl.cnf"]
      [] op = "sign-client-cert" ->
           [csr |-> "client.csr", caKey |-> "ca-key.pem", caCert |-> "ca-cert.pem",
            cert |-> "client-cert.pem", cnf |-> "sign.cnf", serial |-> "ca-cert.srl"]
      [] op = "sign-broker-cert" ->
           [csr |-> "broker.csr", caKey |-> "ca-key.pem", caCert |-> "ca-cert.pem",
            cert |-> "broker-cert.pem", cnf |-> "sign.cnf", serial |-> "ca-cert.srl"]

\* The `// Cleanup` block that ends each handler's try block.
successCleanup(op) ==
    LET p == paths(op)
    IN IF op = ServerJs
       THEN <<Step("unlinkSync", p.key), Step("unlinkSync", p.csr), Step("rmdirSync", "")>>
       ELSE IF op \in {"generate-csr", "generate-broker-csr"}
       THEN <<Step("unlinkSync", p.key), Step("unlinkSync", p.csr),
              Step("unlinkSync", p.cnf), Step("rmdirSync", "")>>
       ELSE IF op = "generate-root-ca"
       THEN <<Step("unlinkSync", p.caKey), Step("unlinkSync", p.caCert),
              Step("unlinkSync", p.cnf), Step("rmdirSync", "")>>
       ELSE <<Step("unlinkSync", p.csr), Step("unlinkSync", p.caKey),
              Step("unlinkSync", p.caCert), Step("unlinkSync", p.cert),
              Step("unlinkSync", p.cnf), Step("if existsSync unlinkSync", p.serial),
              Step("rmdirSync", "")>>

\* An inner catch that leaves the key file where it is.
catchCleanupKeepsKey(op) ==
    LET p == paths(op)
        g(f) == Step("if existsSync unlinkSync", f)
    IN IF op = ServerJs
       THEN <<g(p.csr), Step("if existsSync rmdirSync", "")>>
       ELSE IF op \in {"generate-csr", "generate-broker-csr"}
       THEN <<g(p.csr), g(p.cnf), Step("if existsSync rmdirSync", "")>>
       ELSE IF op = "generate-root-ca"
       THEN <<g(p.caCert), g(p.cnf), Step("if existsSync rmdirSync", "")>>
       ELSE <<g(p.csr), g(p.caCert), g(p.cert), g(p.cnf),
              Step("if existsSync rmdirSync", "")>>

\* The cleanup block of each handler's inner catch.
catchCleanup(op) ==
    LET p == paths(op)
        g(f) == Step("if existsSync unlinkSync", f)
    IN IF op = ServerJs
       THEN <<g(p.key), g(p.csr), Step("if existsSync rmdirSync", "")>>
       ELSE IF op \in {"generate-csr", "generate-broker-csr"}
       THEN <<g(p.key), g(p.csr), g(p.cnf), Step("if existsSync rmdirSync", "")>>
       ELSE IF op = "generate-root-ca"
       THEN <<g(p.caKey), g(p.caCert), g(p.cnf), Step("if existsSync rmdirSync", "")>>
       ELSE <<g(p.csr), g(p.caKey), g(p.caCert), g(p.cert), g(p.cnf),
              Step("if existsSync rmdirSync", "")>>

\* The `error` field of each handler's 500 response.
errorTitle(op) ==
    CASE op \in {"generate-csr", ServerJs} -> "Failed to generate CSR"
      [] op = "generate-broker-csr" -> "Failed to generate broker CSR"
      [] op = "generate-root-ca" -> "Failed to generate Root CA"
      [] op = "sign-client-cert" -> "Failed to sign client certificate"
      [] op = "sign-broker-cert" -> "Failed to sign broker certificate"

\* Staging directories named by the time alone, whatever the operation.
tempDirNoPrefix(op) == ""

\* path.join(__dirname, 'temp', `${prefix}${Date.now()}`), as the name in temp/
tempDirPrefix(op) ==
    CASE op \in {"generate-csr", ServerJs} -> ""
      [] op = "generate-broker-csr" -> "broker-"
      [] op = "generate-root-ca" -> "ca-"
      [] op = "sign-client-cert" -> "sign-client-"
      [] op = "sign-broker-cert" -> "sign-broker-"

tempDir(op, now) == tempDirPrefix(op) \o ToString(now)

\* ------------------------------------------------- the openssl commands
\* The builds of openssl the server may find on its PATH.  They differ in
\* when `ecparam` opens its output file: before it looks up the curve
\* (3.0.x), or after (3.5.x).
Builds == {"openssl 3.0", "openssl 3.5"}

\* A command is a process of its own: it reads its input files, opens its
\* output files and writes them one after the other, and the server and the
\* other processes run in between.  Each command below is one step of its
\* process, from the state P of the process (Idle before its first step,
\* then how far it has got and what it holds in memory) and the file system
\* F: either the process goes on in a new state, or it exits.
\* A command's process that has not touched a file yet, or has ended.
Idle == [phase |-> "idle"]

Goes(F, n, P) ==
    [fs |-> F, draws |-> n, done |-> FALSE, proc |-> P, ok |-> TRUE, out |-> None,
     err |-> ""]

\* The process exits, 0 or not, with this stdout; execAsync rejects a
\* command that does not exit 0 with the message "Command failed: ...".
Exits(F, n, ok, out, c) ==
    [fs |-> F, draws |-> n, done |-> TRUE, proc |-> Idle, ok |-> ok,
     out |-> out, err |-> IF ok THEN "" ELSE CommandFailed(c)]

\* The process holds text pem to write to its output file.
Made(pem) == [phase |-> "made", pem |-> pem]

\* The process of request r opens file f for writing: created, or cut to
\* length 0.  The caller checks that the directory exists.
openOut(F, d, f, r) == write(F, d, f, r, Empty)

\* What becomes of a file that two processes write at once.
Races == {"mine", "theirs", "mixed"}

\* The process of request r writes content c to file f, which it has opened.
\* A file unlinked since has no name any more: the bytes are lost with it.
\* A file another process has written since is written by both: it ends up
\* with this content, the other's, or a mix of the two.
fillOne(F, d, r, f, c, race) ==
    IF ~existsSync(F, d, f) THEN F
    ELSE IF F[d][f].c = Empty \/ race = "mine" THEN write(F, d, f, r, c)
    ELSE IF race = "theirs" THEN F
    ELSE write(F, d, f, r, Junk)

\* The last two steps of a command with `-out f`: it opens f, which fails
\* when the directory is gone, then writes the text it has made and exits 0.
output(F, r, d, f, n, P, race, c) ==
    IF P.phase = "made"
    THEN IF d \notin DOMAIN F THEN Exits(F, n, FALSE, None, c)
         ELSE Goes(openOut(F, d, f, r), n, [P EXCEPT !.phase = "opened"])
    ELSE Exits(fillOne(F, d, r, f, P.pem, race), n, TRUE, None, c)

\* openssl ecparam -name ${curve} -genkey -noout -out ${keyPath}
\* With an unknown curve the command exits 1: a 3.0 build has opened the
\* output file by then and leaves it empty, a 3.5 build has not touched it.
ecparam(F, r, d, keyPath, curve, n, build, P, race) ==
    IF P.phase = "idle"
    THEN IF d \notin DOMAIN F THEN Exits(F, n, FALSE, None, "ecparam")
         ELSE IF curve \notin Curves
         THEN IF build = "openssl 3.0"
              THEN Exits(openOut(F, d, keyPath, r), n, FALSE, None, "ecparam")
              ELSE Exits(F, n, FALSE, None, "ecparam")
         ELSE Goes(openOut(F, d, keyPath, r), n, [phase |-> "opened", pem |-> GenKey(r)])
    ELSE output(F, r, d, keyPath, n, P, race, "ecparam")

\* openssl req -new -key ${keyPath} -out ${csrPath} -config ${configPath}
\* The config is read first, and its extension section checked; then the
\* key is read and the request made; the output file is opened last.
req(F, r, d, keyPath, csrPath, configPath, n, P, race) ==
    IF P.phase = "idle"
    THEN LET cnf == read(F, d, configPath)
         IN IF cnf.t # "cnf" \/ ~extensionsOk(cnf) THEN Exits(F, n, FALSE, None, "req")
            ELSE Goes(F, n, [phase |-> "config read", cnf |-> cnf])
    ELSE IF P.phase = "config read"
    THEN LET key == read(F, d, keyPath)
         IN IF key.t # "key" \/ ~subjectOk(P.cnf) THEN Exits(F, n, FALSE, None, "req")
            ELSE Goes(F, n, Made(Csr(P.cnf.dn, PubOf(key), extensionsOf(P.cnf))))
    ELSE output(F, r, d, csrPath, n, P, race, "req")

\* server.js: let subject = `/C=${country}/ST=${state}/L=${locality}/O=${organization}`;
\* if (organizationalUnit) subject += `/OU=...`; subject += `/CN=...`; ...
\* The string, as the attributes it names.
subjectString(body) ==
    Line("C", body.country) \o Line("ST", body.state) \o Line("L", body.locality)
    \o Line("O", body.organization) \o Opt("OU", body.organizationalUnit)
    \o Line("CN", body.commonName) \o Opt("serialNumber", body.serialNumber)
    \o Opt("emailAddress", body.email)

\* openssl req -new -key ${keyPath} -out ${csrPath} -subj "${subject}"
\* Without -config openssl reads its default configuration, which requests
\* no extensions; an attribute of the string without a value is skipped.
reqSubj(F, r, d, keyPath, csrPath, subject, n, P, race) ==
    IF P.phase = "idle"
    THEN LET key == read(F, d, keyPath)
         IN IF key.t # "key" THEN Exits(F, n, FALSE, None, "req")
            ELSE Goes(F, n, Made(Csr(SelectSeq(subject, LAMBDA a : a.value # ""),
                                     PubOf(key), NoExts)))
    ELSE output(F, r, d, csrPath, n, P, race, "req")

\* The serial of a certificate made without a serial file: the k-th random
\* draw of the run.  openssl draws 159 random bits; that no two draws give
\* the same number, and none the successor of another, is assumed.
newSerial(k) == Serial(k, 0)

\* openssl req -new -x509 -days ${validityDays} -key ... -out ... -config ...
reqX509(F, r, d, keyPath, certPath, configPath, days, n, P, race) ==
    IF P.phase = "idle"
    THEN LET cnf == read(F, d, configPath)
         IN IF cnf.t # "cnf" \/ ~extensionsOk(cnf)
            THEN Exits(F, n, FALSE, None, "req -x509")
            ELSE Goes(F, n, [phase |-> "config read", cnf |-> cnf])
    ELSE IF P.phase = "config read"
    THEN LET key == read(F, d, keyPath)
         IN IF key.t # "key" \/ ~subjectOk(P.cnf)
            THEN Exits(F, n, FALSE, None, "req -x509")
            ELSE Goes(F, n + 1, Made(Cert(P.cnf.dn, P.cnf.dn, PubOf(key), newSerial(n + 1),
                                          extensionsOf(P.cnf), days)))
    ELSE output(F, r, d, certPath, n, P, race, "req -x509")

\* openssl ec -in ${keyPath} -pubout 2>/dev/null
ecPubout(F, d, keyPath, n) ==
    LET key == read(F, d, keyPath)
    IN IF key.t # "key" THEN Exits(F, n, FALSE, None, "ec")
       ELSE Exits(F, n, TRUE, PubOf(key), "ec")

\* The text openssl prints for a CSR or a certificate.
Text(pem) == [t |-> "text", of |-> pem]

\* openssl req -text -noout -in ${csrPath}
reqText(F, d, csrPath, n) ==
    LET pem == read(F, d, csrPath)
    IN IF pem.t # "csr" THEN Exits(F, n, FALSE, None, "req -text")
       ELSE Exits(F, n, TRUE, Text(pem), "req -text")

\* openssl x509 -in ${certPath} -text -noout
x509Text(F, d, certPath, n) ==
    LET pem == read(F, d, certPath)
    IN IF pem.t # "cert" THEN Exits(F, n, FALSE, None, "x509 -text")
       ELSE Exits(F, n, TRUE, Text(pem), "x509 -text")

\* A signer that copies the extensions the CSR requests into the certificate
\* (openssl's -copy_extensions copy): the extension file only adds to them.
copiedExtensions(csr, cnf) ==
    IF csr.exts = NoExts THEN extensionsOf(cnf) ELSE csr.exts

\* The extensions `openssl x509 -req -extfile f -extensions s` gives the
\* certificate: those of section s of f, none of the CSR's.
signedExtensions(csr, cnf) == extensionsOf(cnf)

\* A signer whose new serial file starts at a fixed number, so that every
\* signing in a fresh directory issues the same serial.
firstSerialFixed(srl, n) ==
    IF srl.t = "srl" THEN Serial(srl.n.base, srl.n.inc + 1) ELSE Serial(0, 1)

\* The serial `-CAcreateserial -CAserial ${serialPath}` gives the certificate:
\* the successor of the one in the serial file, or a random one when there
\* is no such file.
nextSerial(srl, n) ==
    IF srl.t = "srl" THEN Serial(srl.n.base, srl.n.inc + 1) ELSE newSerial(n + 1)

\* openssl x509 -req -in ${csrPath} -CA ${caCertPath} -CAkey ${caKeyPath}
\*   -CAcreateserial -CAserial ${serialPath} -out ${certPath} -days ${validityDays}
\*   -extfile ${configPath} -extensions v3_...
\* The process reads the extension file, the CSR and the CA certificate;
\* opens the output file; reads the serial file (one that holds no number is
\* an error, "Unable to load number"; none at all makes it draw a serial);
\* opens the serial file, writes the new serial to it and closes it; reads
\* the CA key, which must be the key of the CA certificate; and writes the
\* certificate.  It exits where a step fails, leaving what it has written.
x509Req(F, r, d, p, days, n, P, race) ==
    CASE P.phase = "idle" ->
           LET cnf == read(F, d, p.cnf)
               csr == read(F, d, p.csr)
               ca == read(F, d, p.caCert)
           IN IF cnf.t # "cnf" \/ ~extensionsOk(cnf) \/ csr.t # "csr" \/ ca.t # "cert"
              THEN Exits(F, n, FALSE, None, "x509 -req")
              ELSE Goes(F, n, [phase |-> "loaded", cnf |-> cnf, csr |-> csr, ca |-> ca])
      [] P.phase = "loaded" ->
           IF d \notin DOMAIN F THEN Exits(F, n, FALSE, None, "x509 -req")
           ELSE Goes(openOut(F, d, p.cert, r), n, [P EXCEPT !.phase = "cert opened"])
      [] P.phase = "cert opened" ->
           LET srl == read(F, d, p.serial)
           IN IF existsSync(F, d, p.serial) /\ srl.t # "srl"
              THEN Exits(F, n, FALSE, None, "x509 -req")
              ELSE Goes(F, IF srl.t = "srl" THEN n ELSE n + 1,
                        [phase |-> "serial read", cnf |-> P.cnf, csr |-> P.csr,
                         ca |-> P.ca, serial |-> nextSerial(srl, n)])
      [] P.phase = "serial read" ->
           IF d \notin DOMAIN F THEN Exits(F, n, FALSE, None, "x509 -req")
           ELSE Goes(openOut(F, d, p.serial, r), n, [P EXCEPT !.phase = "serial opened"])
      [] P.phase = "serial opened" ->
           Goes(fillOne(F, d, r, p.serial, [t |-> "srl", n |-> P.serial], race), n,
                [P EXCEPT !.phase = "serial written"])
      [] P.phase = "serial written" ->
           LET key == read(F, d, p.caKey)
           IN IF key.t # "key" \/ PubOf(key) # P.ca.pub
              THEN Exits(F, n, FALSE, None, "x509 -req")
              ELSE Goes(F, n, [phase |-> "opened",
                               pem |-> Cert(P.csr.subject, P.ca.subject, P.csr.pub,
                                            P.serial, signedExtensions(P.csr, P.cnf),
                                            days)])
      [] P.phase = "opened" -> output(F, r, d, p.cert, n, P, race, "x509 -req")

\* One step of the process of the command request r awaits, in state P on
\* file system F, with the given build.
step(F, r, n, build, P, race) ==
    LET op == rq[r].op
        body == rq[r].body
        d == rq[r].dir
        p == paths(op)
        c == cmd[r].name
    IN CASE c = "ecparam" ->
              ecparam(F, r, d, IF op = "generate-root-ca" THEN p.caKey ELSE p.key,
                      Default(body.curve, "prime256v1"), n, build, P, race)
         [] c = "req" -> req(F, r, d, p.key, p.csr, p.cnf, n, P, race)
         [] c = "req -subj" ->
              reqSubj(F, r, d, p.key, p.csr, subjectString(body), n, P, race)
         [] c = "req -x509" ->
              reqX509(F, r, d, p.caKey, p.caCert, p.cnf,
                      Default(body.validityDays, "3650"), n, P, race)
         [] c = "ec" -> ecPubout(F, d, p.key, n)
         [] c = "req -text" -> reqText(F, d, p.csr, n)
         [] c = "x509 -text" ->
              x509Text(F, d, IF op = "generate-root-ca" THEN p.caCert ELSE p.cert, n)
         [] c = "x509 -req" ->
              x509Req(F, r, d, p, Default(body.validityDays, "365"), n, P, race)

\* The process of request r's command run from state P to its exit, nothing
\* else taking a step in between: the exit of the step s it takes from P,
\* or of the run from where s leaves it.
RECURSIVE run(_, _, _, _, _, _)
run(F, r, n, build, P, race) ==
    CHOOSE o \in {IF s.done THEN s ELSE run(s.fs, r, s.draws, build, s.proc, race) :
                     s \in {step(F, r, n, build, P, race)}} : TRUE

\* -------------------------------------------------------------- handlers
NoRequest == [op |-> "", body |-> EmptyBody, dir |-> "", staged |-> FALSE]
NoCommand == [name |-> "", at |-> 0, proc |-> Idle]
NoReturn == [ok |-> TRUE, out |-> None, err |-> ""]
\* The statements a handler runs from one await to the next, or to its
\* response: those of its try block (kind "try"), followed by the next await
\* or by the response of `then`, or those of its inner catch (kind "catch"),
\* followed by the 500 response that carries the message of the error caught.
NoBlock == [kind |-> "none", todo |-> <<>>, data |-> None, then |-> None, message |-> ""]
Try(todo, data, then) ==
    [kind |-> "try", todo |-> todo, data |-> data, then |-> then, message |-> ""]
ThenAwait(next) == [t |-> "await", next |-> next]
ThenRespond(payload) == [t |-> "respond", payload |-> payload]
NoLocals == [privateKey |-> None, csr |-> None, publicKey |-> None, cert |-> None,
             block |-> NoBlock]
NoResponse == [status |-> 0]

ServerInit ==
    /\ clock = 0
    /\ fs = [d \in {} |-> EmptyDir]
    /\ pc = [r \in Reqs |-> "new"]
    /\ rq = [r \in Reqs |-> NoRequest]
    /\ cmd = [r \in Reqs |-> NoCommand]
    /\ ret = [r \in Reqs |-> NoReturn]
    /\ loc = [r \in Reqs |-> NoLocals]
    /\ resp = [r \in Reqs |-> NoResponse]
    /\ draws = 0

\* JavaScript runs one handler at a time: while a handler is within its
\* statements ("busy"), no request arrives and no other handler goes on.
Free == \A q \in Reqs : pc[q] # "busy"

\* Requests are numbered in the order they arrive.
Arrives(r) ==
    /\ pc[r] = "new" /\ \A q \in Reqs : q < r => pc[q] # "new"
    /\ clock <= MaxClock
    /\ Free

\* A response after which the handler goes on: res.json(...) that does not
\* end the handler's turn.
RespondAndGoOn(r, response) ==
    /\ resp' = [resp EXCEPT ![r] = response]
    /\ pc' = pc

\* res.json(...) / res.status(...).json(...): the handler is over.
Respond(r, response) ==
    /\ resp' = [resp EXCEPT ![r] = response]
    /\ pc' = [pc EXCEPT ![r] = "done"]

\* await execAsync(`openssl ...`): the handler yields until the command ends.
Await(r, c) ==
    /\ cmd' = [cmd EXCEPT ![r] = [name |-> c, at |-> clock, proc |-> Idle]]
    /\ pc' = [pc EXCEPT ![r] = "await"]

\* A validation placed after the staging directory is made: the request is
\* answered 400 with its directory on disk.
RejectAfterStaging(r, op, body, error) ==
    /\ rq' = [rq EXCEPT ![r] = [op |-> op, body |-> body, dir |-> tempDir(op, clock),
                                staged |-> TRUE]]
    /\ fs' = mkdirSync(fs, tempDir(op, clock))
    /\ Respond(r, [status |-> 400, error |-> error])
    /\ UNCHANGED cmd

\* return res.status(400).json({ error }): before any staging.
Reject(r, op, body, error) ==
    /\ rq' = [rq EXCEPT ![r] = [op |-> op, body |-> body, dir |-> "", staged |-> FALSE]]
    /\ Respond(r, [status |-> 400, error |-> error])
    /\ UNCHANGED <<fs, cmd>>

\* The staging directory is made and the first command started.
Stage(r, op, body, F, c) ==
    /\ rq' = [rq EXCEPT ![r] = [op |-> op, body |-> body, dir |-> tempDir(op, clock),
                                staged |-> TRUE]]
    /\ fs' = F
    /\ Await(r, c)
    /\ UNCHANGED resp

\* The inner catch of request r's handler, for an error with this message:
\* it cleans up and rethrows, and the outer catch answers 500.
Catch(r, message) ==
    [kind |-> "catch", todo |-> catchCleanup(rq[r].op), data |-> None, then |-> None,
     message |-> message]

\* The block B of request r's handler after its next statement, on file
\* system F with locals L.  An error thrown in the try block is caught by the
\* inner catch; one thrown within the inner catch ends its cleanup and is
\* swallowed.
advance(F, L, r, B) ==
    CHOOSE a \in {[fs |-> x.fs, loc |-> x.loc,
                   block |-> IF x.err = "" THEN [B EXCEPT !.todo = Tail(B.todo)]
                             ELSE IF B.kind = "try" THEN Catch(r, x.err)
                             ELSE [B EXCEPT !.todo = <<>>]] :
                     x \in {statement(F, L, r, rq[r].dir, Head(B.todo), B.data)}} : TRUE

\* The block B run to its last statement, nothing else taking a step in
\* between.
RECURSIVE complete(_, _, _, _)
complete(F, L, r, B) ==
    IF B.todo = <<>> THEN [fs |-> F, loc |-> L, block |-> B]
    ELSE CHOOSE o \in {complete(a.fs, a.loc, r, a.block) : a \in {advance(F, L, r, B)}} : TRUE

\* The process of another request's command is running in the staging
\* directory of request r.
Watched(r) == \E q \in Reqs \ {r} : pc[q] = "await" /\ rq[q].dir = rq[r].dir

\* The handler of request r runs the block B: its next statement while a
\* process runs in its directory, which can take its steps between any two
\* statements; all its statements as one step otherwise.  After the last
\* statement of a try block comes the await or the response it leads to,
\* after that of an inner catch the 500 response.
Do(r, B) ==
    \E a \in {IF Watched(r) THEN advance(fs, loc[r], r, B)
              ELSE complete(fs, loc[r], r, B)} :
       /\ fs' = a.fs
       /\ loc' = [loc EXCEPT ![r] = [a.loc EXCEPT !.block = a.block]]
       /\ IF a.block.todo # <<>>
          THEN pc' = [pc EXCEPT ![r] = "busy"] /\ UNCHANGED <<cmd, resp>>
          ELSE IF a.block.kind = "catch"
          THEN /\ Respond(r, [status |-> 500, error |-> errorTitle(rq[r].op),
                              message |-> a.block.message])
               /\ UNCHANGED cmd
          ELSE IF a.block.then.t = "respond"
          THEN Respond(r, a.block.then.payload) /\ UNCHANGED cmd
          ELSE Await(r, a.block.then.next) /\ UNCHANGED resp

\* An error with this message thrown in the inner try block: the inner catch
\* cleans up, statement by statement (its own errors are swallowed), and
\* rethrows; the outer catch answers 500 with the error's message.
Fail(r, message) == Do(r, Catch(r, message))

\* res.json(payload) placed before the `// Cleanup` block: the response
\* leaves with the staging directory and its files on disk.
FinishWithoutCleanup(r, payload) ==
    /\ Respond(r, payload)
    /\ UNCHANGED <<fs, cmd, loc>>

\* The statements of the `// Cleanup` block, then res.json(payload); a
\* cleanup statement that throws is caught like any other error of the try
\* block.
Finish(r, payload) ==
    Do(r, Try(successCleanup(rq[r].op), None, ThenRespond(payload)))

\* const a = fs.readFileSync(f1, 'utf8'); const b = fs.readFileSync(f2, 'utf8'):
\* the key into privateKey, the other file into the local named `into`;
\* then the next command.
ReadBack(r, f1, f2, into, next) ==
    Do(r, Try(<<ReadInto(f1, "privateKey"), ReadInto(f2, into)>>, None, ThenAwait(next)))

\* fs.writeFileSync(configPath, config), then the next command.
WriteConfig(r, config, next) ==
    Do(r, Try(WriteFile(paths(rq[r].op).cnf), config, ThenAwait(next)))

\* The handler of request r, within a block, runs its next statement.
HandlerStep(r) ==
    /\ pc[r] = "busy"
    /\ Do(r, loc[r].block)
    /\ UNCHANGED <<clock, rq, ret, draws, fnVars>>

\* POST /api/generate-csr, up to its first await
GenerateCsrStart(r) ==
    /\ Arrives(r)
    /\ \E body \in Bodies("generate-csr") :
          IF Falsy(body.commonName) \/ Falsy(body.organization) \/ Falsy(body.country)
             \/ Falsy(body.state) \/ Falsy(body.locality)
          THEN Reject(r, "generate-csr", body, "Missing required fields")
          ELSE Stage(r, "generate-csr", body,
                     mkdirSync(fs, tempDir("generate-csr", clock)), "ecparam")
    /\ UNCHANGED <<clock, ret, loc, draws, fnVars>>

\* POST /api/generate-csr, from one await to the next
GenerateCsrResume(r) ==
    /\ pc[r] = "resume" /\ Free /\ rq[r].op = "generate-csr"
    /\ LET p == paths("generate-csr")
           c == cmd[r].name
       IN IF ~ret[r].ok THEN Fail(r, ret[r].err)
          ELSE CASE c = "ecparam" -> WriteConfig(r, clientCsrConfig(rq[r].body), "req")
                 [] c = "req" ->
                      ReadBack(r, p.key, p.csr, "csr", "ec")
                 [] c = "ec" ->
                      /\ loc' = [loc EXCEPT ![r].publicKey = ret[r].out]
                      /\ Await(r, "req -text")
                      /\ UNCHANGED <<fs, resp>>
                 [] c = "req -text" ->
                      Finish(r, [status |-> 200, success |-> TRUE,
                                 privateKey |-> loc[r].privateKey,
                                 publicKey |-> loc[r].publicKey, csr |-> loc[r].csr,
                                 csrDetails |-> ret[r].out])
    /\ UNCHANGED <<clock, rq, ret, draws, fnVars>>

\* POST /api/generate-broker-csr on this body, from the arrival of the
\* request up to its first await
GenerateBrokerCsr(r, body) ==
    /\ IF Falsy(body.commonName)
       THEN Reject(r, "generate-broker-csr", body,
                   "Common Name (CN) is required for broker certificate")
       ELSE Stage(r, "generate-broker-csr", body,
                  mkdirSync(fs, tempDir("generate-broker-csr", clock)), "ecparam")
    /\ UNCHANGED <<clock, ret, loc, draws, fnVars>>

GenerateBrokerCsrStart(r) ==
    Arrives(r) /\ \E body \in Bodies("generate-broker-csr") : GenerateBrokerCsr(r, body)

\* POST /api/generate-broker-csr, from one await to the next
GenerateBrokerCsrResume(r) ==
    /\ pc[r] = "resume" /\ Free /\ rq[r].op = "generate-broker-csr"
    /\ LET p == paths("generate-broker-csr")
           c == cmd[r].name
       IN IF ~ret[r].ok THEN Fail(r, ret[r].err)
          ELSE CASE c = "ecparam" -> WriteConfig(r, brokerCsrConfig(rq[r].body), "req")
                 [] c = "req" ->
                      ReadBack(r, p.key, p.csr, "csr", "ec")
                 [] c = "ec" ->
                      /\ loc' = [loc EXCEPT ![r].publicKey = ret[r].out]
                      /\ Await(r, "req -text")
                      /\ UNCHANGED <<fs, resp>>
                 [] c = "req -text" ->
                      Finish(r, [status |-> 200, success |-> TRUE,
                                 privateKey |-> loc[r].privateKey,
                                 publicKey |-> loc[r].publicKey, csr |-> loc[r].csr,
                                 csrDetails |-> ret[r].out, type |-> "broker"])
    /\ UNCHANGED <<clock, rq, ret, draws, fnVars>>

\* POST /api/generate-root-ca, up to its first await: it validates nothing
GenerateRootCaStart(r) ==
    /\ Arrives(r)
    /\ \E body \in Bodies("generate-root-ca") :
          Stage(r, "generate-root-ca", body,
                mkdirSync(fs, tempDir("generate-root-ca", clock)), "ecparam")
    /\ UNCHANGED <<clock, ret, loc, draws, fnVars>>

\* POST /api/generate-root-ca, from one await to the next
GenerateRootCaResume(r) ==
    /\ pc[r] = "resume" /\ Free /\ rq[r].op = "generate-root-ca"
    /\ LET p == paths("generate-root-ca")
           c == cmd[r].name
       IN IF ~ret[r].ok THEN Fail(r, ret[r].err)
          ELSE CASE c = "ecparam" -> WriteConfig(r, caConfig(rq[r].body), "req -x509")
                 [] c = "req -x509" ->
                      ReadBack(r, p.caKey, p.caCert, "cert", "x509 -text")
                 [] c = "x509 -text" ->
                      Finish(r, [status |-> 200, success |-> TRUE,
                                 caKey |-> loc[r].privateKey, caCert |-> loc[r].cert,
                                 certDetails |-> ret[r].out])
    /\ UNCHANGED <<clock, rq, ret, draws, fnVars>>

\* The three writeFileSync of a signing handler and that of its config.
signingFiles(F, r, op, d, body, config) ==
    LET p == paths(op)
    IN write(write(write(write(F, d, p.csr, r, body.csr), d, p.caKey, r, body.caKey),
                   d, p.caCert, r, body.caCert),
             d, p.cnf, r, config)

\* POST /api/sign-client-cert, up to its first await
SignClientCertStart(r) ==
    /\ Arrives(r)
    /\ \E body \in Bodies("sign-client-cert") :
          IF Absent(body.csr) \/ Absent(body.caKey) \/ Absent(body.caCert)
          THEN Reject(r, "sign-client-cert", body,
                      "CSR, CA Key, and CA Certificate are required")
          ELSE LET d == tempDir("sign-client-cert", clock)
               IN Stage(r, "sign-client-cert", body,
                        signingFiles(mkdirSync(fs, d), r, "sign-client-cert", d, body,
                                     clientSigningConfig),
                        "x509 -req")
    /\ UNCHANGED <<clock, ret, loc, draws, fnVars>>

\* const signedCert = fs.readFileSync(certPath, 'utf8'), then the next command.
ReadCert(r) ==
    Do(r, Try(<<ReadInto(paths(rq[r].op).cert, "cert")>>, None, ThenAwait("x509 -text")))

\* POST /api/sign-client-cert, from one await to the next
SignClientCertResume(r) ==
    /\ pc[r] = "resume" /\ Free /\ rq[r].op = "sign-client-cert"
    /\ IF ~ret[r].ok THEN Fail(r, ret[r].err)
       ELSE CASE cmd[r].name = "x509 -req" -> ReadCert(r)
              [] cmd[r].name = "x509 -text" ->
                   Finish(r, [status |-> 200, success |-> TRUE,
                              signedCert |-> loc[r].cert, certDetails |-> ret[r].out])
    /\ UNCHANGED <<clock, rq, ret, draws, fnVars>>

\* POST /api/sign-broker-cert on this body, from the arrival of the request
\* up to its first await
SignBrokerCert(r, body) ==
    /\ IF Absent(body.csr) \/ Absent(body.caKey) \/ Absent(body.caCert)
       THEN Reject(r, "sign-broker-cert", body,
                   "CSR, CA Key, and CA Certificate are required")
       ELSE LET d == tempDir("sign-broker-cert", clock)
            IN Stage(r, "sign-broker-cert", body,
                     signingFiles(mkdirSync(fs, d), r, "sign-broker-cert", d, body,
                                  brokerSigningConfig(body)),
                     "x509 -req")
    /\ UNCHANGED <<clock, ret, loc, draws, fnVars>>

SignBrokerCertStart(r) ==
    Arrives(r) /\ \E body \in Bodies("sign-broker-cert") : SignBrokerCert(r, body)

\* POST /api/sign-broker-cert, from one await to the next
SignBrokerCertResume(r) ==
    /\ pc[r] = "resume" /\ Free /\ rq[r].op = "sign-broker-cert"
    /\ IF ~ret[r].ok THEN Fail(r, ret[r].err)
       ELSE CASE cmd[r].name = "x509 -req" -> ReadCert(r)
              [] cmd[r].name = "x509 -text" ->
                   Finish(r, [status |-> 200, success |-> TRUE,
                              signedCert |-> loc[r].cert, certDetails |-> ret[r].out])
    /\ UNCHANGED <<clock, rq, ret, draws, fnVars>>

\* server.js, POST /api/generate-csr, up to its first await
ServerJsGenerateCsrStart(r) ==
    /\ Arrives(r)
    /\ \E body \in Bodies(ServerJs) :
          IF Falsy(body.commonName) \/ Falsy(body.organization) \/ Falsy(body.country)
             \/ Falsy(body.state) \/ Falsy(body.locality)
          THEN Reject(r, ServerJs, body, "Missing required fields")
          ELSE Stage(r, ServerJs, body, mkdirSync(fs, tempDir(ServerJs, clock)), "ecparam")
    /\ UNCHANGED <<clock, ret, loc, draws, fnVars>>

\* server.js, POST /api/generate-csr, from one await to the next: no config
\* file is written, the CSR is not decoded, and the public key is the output
\* of the last command.
ServerJsGenerateCsrResume(r) ==
    /\ pc[r] = "resume" /\ Free /\ rq[r].op = ServerJs
    /\ LET p == paths(ServerJs)
           c == cmd[r].name
       IN IF ~ret[r].ok THEN Fail(r, ret[r].err)
          ELSE CASE c = "ecparam" ->
                      /\ Await(r, "req -subj")
                      /\ UNCHANGED <<fs, loc, resp>>
                 [] c = "req -subj" -> ReadBack(r, p.key, p.csr, "csr", "ec")
                 [] c = "ec" ->
                      Finish(r, [status |-> 200, success |-> TRUE,
                                 privateKey |-> loc[r].privateKey,
                                 publicKey |-> ret[r].out, csr |-> loc[r].csr])
    /\ UNCHANGED <<clock, rq, ret, draws, fnVars>>

\* Another request in flight works in the staging directory of request r.
Sharing(r) ==
    \E q \in Reqs \ {r} : pc[q] \in {"await", "resume", "busy"} /\ rq[q].dir = rq[r].dir

\* What the handler of request r gets from its command when it has ended.
Returned(r, ok, out, err) ==
    /\ ret' = [ret EXCEPT ![r] = [ok |-> ok, out |-> out, err |-> err]]
    /\ pc' = [pc EXCEPT ![r] = "resume"]

\* The builds that differ in the command request r awaits: the two differ
\* in ecparam only.
BuildsAt(r) == IF cmd[r].name = "ecparam" THEN Builds ELSE {"openssl 3.0"}

\* The ways the writes of request r's process can go when it runs on to its
\* end.  A process that has opened no file yet has none to share with a
\* process that ran earlier.
RacesAt(r) == IF cmd[r].proc = Idle THEN {"mine"} ELSE Races

\* The ways the next step of request r's process can go: only a step that
\* writes into a file opened earlier can race.
RacesOfStep(r) ==
    IF cmd[r].proc.phase \in {"opened", "serial opened"} THEN Races ELSE {"mine"}

\* The command a request awaits runs to its end.  A command is a process of
\* its own: it does not touch a file within the millisecond it was started
\* in.  From then on no request can arrive in the directory of request r,
\* so while no other request in flight has that directory, nothing sees
\* the steps of the process apart and they are taken as one step.
Exec(r) ==
    /\ pc[r] = "await"
    /\ clock > cmd[r].at
    /\ ~Sharing(r)
    /\ \E build \in BuildsAt(r), race \in RacesAt(r) :
          \E o \in {run(fs, r, draws, build, cmd[r].proc, race)} :
             /\ fs' = o.fs
             /\ draws' = o.draws
             /\ Returned(r, o.ok, o.out, o.err)
    /\ cmd' = [cmd EXCEPT ![r].proc = Idle]
    /\ UNCHANGED <<clock, rq, loc, resp, fnVars>>

\* While another request works in the same directory, the process of the
\* command takes one step at a time.
ExecStep(r) ==
    /\ pc[r] = "await"
    /\ clock > cmd[r].at
    /\ Sharing(r)
    /\ \E build \in BuildsAt(r), race \in RacesOfStep(r) :
          \E s \in {step(fs, r, draws, build, cmd[r].proc, race)} :
             /\ fs' = s.fs
             /\ draws' = s.draws
             /\ cmd' = [cmd EXCEPT ![r].proc = s.proc]
             /\ IF s.done THEN Returned(r, s.ok, s.out, s.err) ELSE UNCHANGED <<ret, pc>>
    /\ UNCHANGED <<clock, rq, loc, resp, fnVars>>

\* A millisecond passes.  Only the order of Date.now() values and command
\* ends matters, so time is let pass only while a command started in this
\* millisecond is still running: a tick nothing waits for changes nothing
\* that a later one does not.
Tick ==
    /\ \E r \in Reqs : pc[r] = "await" /\ cmd[r].at = clock
    /\ clock' = clock + 1
    /\ UNCHANGED <<fs, pc, rq, cmd, ret, loc, resp, draws, fnVars>>

Init == ServerInit /\ sanIn = <<>> /\ dnIn = EmptyBody /\ dnOut = None

Next ==
    \/ Tick
    \/ \E r \in Reqs :
          \/ GenerateCsrStart(r) \/ GenerateCsrResume(r)
          \/ GenerateBrokerCsrStart(r) \/ GenerateBrokerCsrResume(r)
          \/ GenerateRootCaStart(r) \/ GenerateRootCaResume(r)
          \/ SignClientCertStart(r) \/ SignClientCertResume(r)
          \/ SignBrokerCertStart(r) \/ SignBrokerCertResume(r)
          \/ HandlerStep(r) \/ Exec(r) \/ ExecStep(r)

Spec == Init /\ [][Next]_vars

\* The continuation of request r's handler after an await.
Continues(r) ==
    \/ GenerateCsrResume(r) \/ GenerateBrokerCsrResume(r) \/ GenerateRootCaResume(r)
    \/ SignClientCertResume(r) \/ SignBrokerCertResume(r)
    \/ HandlerStep(r)

\* A step of the process of the command request r awaits.
Runs(r) == Exec(r) \/ ExecStep(r)

\* A step of the server or of a process it started, as opposed to the
\* arrival of a request.
Progress == Tick \/ \E r \in Reqs : Continues(r) \/ Runs(r)

\* Time passes, the commands the server started run on to their end, and
\* the event loop runs the continuation of a handler whose awaited promise
\* has settled: none of them halts while it can take a step.
FairSpec == Spec /\ WF_vars(Progress)

\* The server of src/server.js.
NextServerJs ==
    \/ Tick
    \/ \E r \in Reqs :
          \/ ServerJsGenerateCsrStart(r) \/ ServerJsGenerateCsrResume(r)
          \/ HandlerStep(r) \/ Exec(r) \/ ExecStep(r)

SpecServerJs == Init /\ [][NextServerJs]_vars

\* ------------------------------------------------ the SAN specification
\* The server with requests to its two broker operations only.  The body of
\* the first request carries one subjectAltNames list out of many (sanIn),
\* the body of the second a fixed list: what the handlers render from a
\* list, and what the command that reads the config file of its staging
\* directory makes of it.  The entries: a value to trim, an empty and a
\* blank one, an IP address and an IP entry that is none, a type openssl
\* knows beside DNS and IP, and one it does not know.
SanEntries ==
    {San("DNS", <<"a", " ">>), San("DNS", <<>>), San("DNS", <<" ">>),
     San("IP", <<" ", "10.0.0.1">>), San("IP", <<"a">>),
     San("email", <<"a">>), San("foo", <<"a">>)}

RECURSIVE SanListsOf(_)
SanListsOf(n) ==
    IF n = 0 THEN {<<>>}
    ELSE LET shorter == SanListsOf(n - 1)
         IN shorter \cup {Append(l, e) : l \in {x \in shorter : Len(x) = n - 1},
                                         e \in SanEntries}
SanLists == SanListsOf(MaxSan)

\* The list of the second request.
SanOther == <<San("DNS", <<"b">>)>>

\* A body that passes the validation of its operation, with this list.
SanBody(op, list) ==
    IF op = "generate-broker-csr"
    THEN [EmptyBody EXCEPT !.commonName = "broker", !.subjectAltNames = list]
    ELSE [Signing(PlainCsr, ExtKey(1), CaCert(1)) EXCEPT !.subjectAltNames = list]

SanBodies(op, r) == {SanBody(op, IF r = 1 THEN sanIn ELSE SanOther)}

SanInit == ServerInit /\ sanIn \in SanLists /\ dnIn = EmptyBody /\ dnOut = None

\* POST /api/generate-broker-csr on a body of the SAN specification
BrokerCsrSan(r) ==
    Arrives(r) /\ \E body \in SanBodies("generate-broker-csr", r) : GenerateBrokerCsr(r, body)

\* POST /api/sign-broker-cert on a body of the SAN specification
SignBrokerSan(r) ==
    Arrives(r) /\ \E body \in SanBodies("sign-broker-cert", r) : SignBrokerCert(r, body)

SanNext ==
    \/ Tick
    \/ \E r \in Reqs :
          \/ BrokerCsrSan(r) \/ GenerateBrokerCsrResume(r)
          \/ SignBrokerSan(r) \/ SignBrokerCertResume(r)
          \/ HandlerStep(r) \/ Exec(r) \/ ExecStep(r)

SpecSan == SanInit /\ [][SanNext]_vars

\* ---------------------------------------------- the subject specification
\* What each handler makes of the identity fields of a body: the
\* distinguished name of its config file or of its -subj string.  Each field
\* is left out, given empty, or given a value.
Given(v) == {Undef, "", v}
DnBodies ==
    {[EmptyBody EXCEPT !.country = c, !.state = st, !.locality = l, !.organization = o,
                       !.organizationalUnit = ou, !.commonName = cn,
                       !.serialNumber = sn, !.email = em] :
        c \in Given("DE"), st \in Given("Bavaria"), l \in Given("Munich"),
        o \in Given("Acme"), ou \in Given("ops"), cn \in Given("host1"),
        sn \in Given("42"), em \in Given("a@b.c")}

DnOutcome(op, dn) == [op |-> op, dn |-> dn]

DnInit ==
    ServerInit /\ sanIn = <<>> /\ dnIn \in DnBodies /\ dnOut = None

\* The validation of the two generate-csr handlers.
clientRequired(body) ==
    ~(Falsy(body.commonName) \/ Falsy(body.organization) \/ Falsy(body.country)
      \/ Falsy(body.state) \/ Falsy(body.locality))

\* generate-csr on a body that passes its validation, up to the config's subject
ClientCsrDn ==
    /\ dnOut = None /\ clientRequired(dnIn)
    /\ dnOut' = DnOutcome("generate-csr", clientDN(dnIn))
    /\ UNCHANGED <<dnIn, sanVars, serverVars>>

\* generate-csr of server.js on a body that passes its validation, up to -subj
ServerJsCsrDn ==
    /\ dnOut = None /\ clientRequired(dnIn)
    /\ dnOut' = DnOutcome(ServerJs, subjectString(dnIn))
    /\ UNCHANGED <<dnIn, sanVars, serverVars>>

\* generate-broker-csr on a body that passes its validation, up to the config's subject
BrokerCsrDn ==
    /\ dnOut = None /\ ~Falsy(dnIn.commonName)
    /\ dnOut' = DnOutcome("generate-broker-csr", brokerDN(dnIn))
    /\ UNCHANGED <<dnIn, sanVars, serverVars>>

\* generate-root-ca on any body (it validates nothing), up to the config's subject
RootCaDn ==
    /\ dnOut = None
    /\ dnOut' = DnOutcome("generate-root-ca", caDN(dnIn))
    /\ UNCHANGED <<dnIn, sanVars, serverVars>>

DnNext == ClientCsrDn \/ ServerJsCsrDn \/ BrokerCsrDn \/ RootCaDn

SpecDn == DnInit /\ [][DnNext]_vars

\* --------------------------------------------------------------- claims
SignOps == {"sign-client-cert", "sign-broker-cert"}
CsrOps == {"generate-csr", "generate-broker-csr"}
InFlight(r) == pc[r] \in {"await", "resume", "busy"}
Answered(r) == pc[r] = "done"
Issued(r) ==
    Answered(r) /\ rq[r].op \in SignOps /\ resp[r].status = 200
    /\ resp[r].signedCert.t = "cert"
\* No other request shares r's staging directory.
Alone(r) == \A q \in Reqs \ {r} : rq[q].dir # rq[r].dir

\* C1: every certificate a signing request returns carries CA:FALSE and the
\* key usage and extended key usage of the signing role, whatever the CSR
\* requested; a client certificate has no SAN, and a broker certificate's SAN
\* is the one rendered from the request body, never the CSR's.
C1_SignerDecidesExtensions ==
    \A r \in Reqs :
        Issued(r) =>
            LET e == resp[r].signedCert.exts
                client == rq[r].op = "sign-client-cert"
            IN /\ e.isCA = "FALSE"
               /\ e.keyUsage = IF client THEN {"digitalSignature", "keyAgreement"}
                               ELSE {"digitalSignature", "keyEncipherment", "keyAgreement"}
               /\ e.eku = IF client THEN {"clientAuth"} ELSE {"serverAuth"}
               /\ client => e.san = <<>>
               /\ e.san # GreedyExts.san
               /\ (~client /\ Alone(r)) =>
                     /\ Len(e.san) = Len(rq[r].body.subjectAltNames)
                     /\ \A i \in 1..Len(e.san) :
                           e.san[i] = <<rq[r].body.subjectAltNames[i].type,
                                        rq[r].body.subjectAltNames[i].value>>

\* A client and a broker certificate were issued for the CSR that requested
\* CA:TRUE, keyCertSign and a SAN of its own.
C1_Witness ==
    /\ \E r \in Reqs : Issued(r) /\ rq[r].op = "sign-client-cert"
                       /\ rq[r].body.csr = GreedyCsr
    /\ \E r \in Reqs : Issued(r) /\ rq[r].op = "sign-broker-cert"
                       /\ rq[r].body.csr = GreedyCsr
                       /\ resp[r].signedCert.exts.san # <<>>

\* C2: two certificates issued under the same CA certificate, by signing
\* requests of either kind, never have the same serial number.  Requests in
\* directories of their own each have a serial drawn; requests of one
\* directory share its serial file and its certificate file, and both read
\* the certificate back from that one file.
C2_SerialsDiffer ==
    \A r1, r2 \in Reqs :
        (r1 # r2 /\ Issued(r1) /\ Issued(r2)
         /\ resp[r1].signedCert.issuer = resp[r2].signedCert.issuer)
            => resp[r1].signedCert.serial # resp[r2].signedCert.serial

\* The same CSR was signed twice with the same CA.
C2_Witness ==
    \E r1, r2 \in Reqs :
        /\ r1 # r2 /\ Issued(r1) /\ Issued(r2)
        /\ rq[r1].body.csr = rq[r2].body.csr
        /\ rq[r1].body.caCert = rq[r2].body.caCert
        /\ resp[r1].signedCert.issuer = resp[r2].signedCert.issuer

\* C3: once a request that staged files is answered, and no request in
\* flight uses the same directory, its staging directory is gone.
C3_StagingRemoved ==
    \A r \in Reqs :
        (Answered(r) /\ rq[r].staged /\ \A q \in Reqs : rq[q].dir = rq[r].dir => Answered(q))
            => rq[r].dir \notin DOMAIN fs

\* C4: two requests in flight never have the same staging directory.
C4_StagingDirsUnique ==
    \A r1, r2 \in Reqs :
        (r1 # r2 /\ InFlight(r1) /\ InFlight(r2)) => rq[r1].dir # rq[r2].dir

\* C5: a CSR request that succeeds returns a key, the public key of that
\* key, and a CSR for that key and the request's own subject.
C5_TripleConsistent ==
    \A r \in Reqs :
        (Answered(r) /\ rq[r].op \in CsrOps /\ resp[r].status = 200) =>
            /\ resp[r].privateKey.t = "key"
            /\ resp[r].publicKey = PubOf(resp[r].privateKey)
            /\ resp[r].csr.t = "csr"
            /\ resp[r].csr.pub = PubOf(resp[r].privateKey)
            /\ resp[r].csr.subject = IF rq[r].op = "generate-csr"
                                     THEN clientDN(rq[r].body) ELSE brokerDN(rq[r].body)

\* C6: the error a failed request reports is never the error of a cleanup
\* statement (unlinkSync, rmdirSync).
C6_CleanupErrorNeverReported ==
    \A r \in Reqs :
        (Answered(r) /\ resp[r].status = 500) =>
            resp[r].message \notin {ENOENT_unlink, ENOENT_rmdir, ENOTEMPTY_rmdir}

\* C7: once a request is answered, no file it wrote holds a private key:
\* not the key it generated, not the CA key it was given.  A key file found
\* in its directory then is one a request still in flight wrote.
C7_NoKeyLeftBehind ==
    \A r \in Reqs :
        Answered(r) =>
            \A d \in DOMAIN fs : \A f \in DOMAIN fs[d] :
                ~(fs[d][f].by = r /\ fs[d][f].c.t = "key")

\* A request that staged has been answered, and its staging directory,
\* which it shared with a request still in flight, holds a key file: one
\* that the process of the other request made after the cleanup of the
\* answered one had removed its own.
C7_Witness ==
    \E r, q \in Reqs :
        /\ r # q /\ Answered(r) /\ rq[r].staged /\ InFlight(q) /\ rq[q].dir = rq[r].dir
        /\ rq[r].dir \in DOMAIN fs
        /\ \E f \in DOMAIN fs[rq[r].dir] : fs[rq[r].dir][f].c.t = "key"

\* A value that is empty or all white space.
Blank(v) == \A j \in 1..Len(v) : v[j] = " "
\* The positions of a list whose value is not blank.
Valid(list) == {i \in 1..Len(list) : ~Blank(list[i].value)}
\* The lists C8 is about: some valid entry, and each valid entry a DNS
\* entry or an IP entry.
DnsIpList(list) ==
    /\ Valid(list) # {}
    /\ \A i \in Valid(list) : list[i].type \in {"DNS", "IP"}
\* t is v without the white space it starts and ends with.
Trimmed(v, t) ==
    /\ t # <<>> /\ t[1] # " " /\ t[Len(t)] # " "
    /\ \E i \in 1..Len(v) : /\ i + Len(t) - 1 <= Len(v)
                             /\ t = SubSeq(v, i, i + Len(t) - 1)
                             /\ Blank(SubSeq(v, 1, i - 1))
                             /\ Blank(SubSeq(v, i + Len(t), Len(v)))
IpEntriesWellFormed(list) ==
    \A i \in Valid(list) : list[i].type = "IP" => Trimmed(list[i].value, <<"10.0.0.1">>)

\* The subjectAltNames list of request r, and the CSR or certificate of its
\* response when it was answered with one.
ListOf(r) == rq[r].body.subjectAltNames
ResultOf(r) ==
    IF rq[r].op = "generate-broker-csr" THEN resp[r].csr ELSE resp[r].signedCert
HasResult(r) == resp[r].status = 200 /\ ResultOf(r).t \in {"csr", "cert"}
\* The config files in the staging directories.
ConfigsOnDisk ==
    {fs[d][f] : <<d, f>> \in {x \in (DOMAIN fs) \X {"broker-openssl.cnf", "sign.cnf"} :
                                 existsSync(fs, x[1], x[2]) /\ fs[x[1]][x[2]].c.t = "cnf"}}

\* C8: a broker request whose list has N valid entries, all DNS or IP, is
\* answered a result that declares exactly N SAN entries, and each entry is
\* rendered with an index counted within its type (the k-th DNS entry
\* DNS.k, the k-th IP entry IP.k).
C8_IndexedPerType ==
    /\ \A r \in Reqs :
          (Answered(r) /\ DnsIpList(ListOf(r)) /\ IpEntriesWellFormed(ListOf(r))) =>
              /\ HasResult(r)
              /\ Len(ResultOf(r).exts.san) = Cardinality(Valid(ListOf(r)))
    /\ \A file \in ConfigsOnDisk :
          LET altNames == file.c.altNames
          IN \A k \in 1..Len(altNames) :
                altNames[k].index =
                    Cardinality({j \in 1..k : altNames[j].type = altNames[k].type})

\* C9: a broker request whose list has no valid entry writes a config
\* without SAN clause and is answered a result without SAN extension.
C9_NoValidEntryNoSan ==
    \A r \in Reqs :
        (rq[r].op \in {"generate-broker-csr", "sign-broker-cert"}
         /\ Valid(ListOf(r)) = {}) =>
            /\ \A file \in ConfigsOnDisk : file.by = r => ~file.c.sanClause
            /\ Answered(r) => (HasResult(r) /\ ResultOf(r).exts.san = <<>>)

\* C10: beside a valid DNS or IP entry, an entry of any other type is
\* dropped: the request is answered a result, whose SAN entries are DNS and
\* IP entries only.
C10_OtherTypesDropped ==
    \A r \in Reqs :
        (Answered(r) /\ IpEntriesWellFormed(ListOf(r))
         /\ \E i \in Valid(ListOf(r)) : ListOf(r)[i].type \in {"DNS", "IP"}) =>
            /\ HasResult(r)
            /\ \A k \in 1..Len(ResultOf(r).exts.san) :
                  ResultOf(r).exts.san[k][1] \in {"DNS", "IP"}

\* C11: every successful client generate-csr response, of either version of
\* the endpoint, carries a CSR that requests keyUsage digitalSignature,
\* keyAgreement and extendedKeyUsage clientAuth and not CA:TRUE, and the
\* csrDetails decode of that CSR.
C11_ClientCsrRequestsClientAuth ==
    \A r \in Reqs :
        (Answered(r) /\ rq[r].op \in {"generate-csr", ServerJs} /\ resp[r].status = 200) =>
            /\ resp[r].csr.t = "csr"
            /\ resp[r].csr.exts.keyUsage = {"digitalSignature", "keyAgreement"}
            /\ resp[r].csr.exts.eku = {"clientAuth"}
            /\ resp[r].csr.exts.isCA # "TRUE"
            /\ "csrDetails" \in DOMAIN resp[r]
            /\ resp[r].csrDetails = Text(resp[r].csr)

\* The canonical order of the subject attributes, and the body field of each.
CanonicalOrder ==
    << [attr |-> "C", field |-> "country"], [attr |-> "ST", field |-> "state"],
       [attr |-> "L", field |-> "locality"], [attr |-> "O", field |-> "organization"],
       [attr |-> "OU", field |-> "organizationalUnit"],
       [attr |-> "CN", field |-> "commonName"],
       [attr |-> "serialNumber", field |-> "serialNumber"],
       [attr |-> "emailAddress", field |-> "email"] >>
\* The identity fields an operation takes: serialNumber is a client input only.
Takes(op, field) == field = "serialNumber" => op \in {"generate-csr", ServerJs}
\* The fields of a body that were supplied non-empty, in canonical order.
SuppliedDn(op, body) ==
    LET kept == SelectSeq(CanonicalOrder,
                          LAMBDA a : Takes(op, a.field) /\ ~Falsy(body[a.field]))
    IN [i \in 1..Len(kept) |-> [attr |-> kept[i].attr, value |-> body[kept[i].field]]]

\* C12: for a body with a Common Name, the distinguished name an operation
\* builds is the list of the fields supplied non-empty, in canonical order:
\* no other attribute, and no empty one.
C12_DnExactlySupplied ==
    (dnOut # None /\ ~Falsy(dnIn.commonName)) => dnOut.dn = SuppliedDn(dnOut.op, dnIn)

\* The subject fields of generate-root-ca that have a default.
Defaulted == {"C", "ST", "L", "O", "CN"}
\* The body field of a subject attribute.
FieldOf(attr) == (CHOOSE a \in {CanonicalOrder[i] : i \in 1..Len(CanonicalOrder)} :
                     a.attr = attr).field
\* The subject has the attribute once, with this value.
HasOnce(dn, attr, value) ==
    /\ \E i \in 1..Len(dn) : dn[i] = [attr |-> attr, value |-> value]
    /\ Cardinality({i \in 1..Len(dn) : dn[i].attr = attr}) = 1
\* generate-root-ca gave each defaulted field its default when the body
\* leaves it out, and the body's value otherwise.
RootCaSubjectFrom(defaults) ==
    (dnOut # None /\ dnOut.op = "generate-root-ca") =>
        \A attr \in Defaulted :
            HasOnce(dnOut.dn, attr,
                    IF dnIn[FieldOf(attr)] = Undef THEN defaults[attr]
                    ELSE dnIn[FieldOf(attr)])

\* C18 as stated: the defaults are Common Name "Root CA", Organization
\* "Organization", Country "US", State "California", Locality "San Francisco".
C18_DefaultsOfTheSpec ==
    RootCaSubjectFrom([C |-> "US", ST |-> "California", L |-> "San Francisco",
                       O |-> "Organization", CN |-> "Root CA"])

\* C18 (amended): the defaults are Common Name "MQTT Root CA", Organization
\* "MQTT Organization", Country "US", State "California", Locality
\* "San Francisco"; a field the body specifies, even as the empty string, is
\* used as given.
C18_DefaultsOfTheCode ==
    RootCaSubjectFrom([C |-> "US", ST |-> "California", L |-> "San Francisco",
                       O |-> "MQTT Organization", CN |-> "MQTT Root CA"])

\* A root CA subject was built from a body that leaves out Common Name and
\* Country, gives an Organization and gives an empty State.
C18_Witness ==
    /\ dnOut # None /\ dnOut.op = "generate-root-ca"
    /\ dnIn.commonName = Undef /\ dnIn.country = Undef
    /\ dnIn.organization = "Acme" /\ dnIn.state = ""

\* C13: every successful generate-root-ca request returns a self-signed
\* certificate with CA:TRUE, keyUsage digitalSignature, cRLSign, keyCertSign
\* and no extended key usage, valid for the request's validityDays, 3650
\* when it has none.
C13_RootCaProfile ==
    \A r \in Reqs :
        (Answered(r) /\ rq[r].op = "generate-root-ca" /\ resp[r].status = 200) =>
            /\ resp[r].caCert.t = "cert"
            /\ resp[r].caCert.issuer = resp[r].caCert.subject
            /\ resp[r].caCert.exts.isCA = "TRUE"
            /\ resp[r].caCert.exts.keyUsage = {"digitalSignature", "cRLSign", "keyCertSign"}
            /\ resp[r].caCert.exts.eku = {}
            /\ resp[r].caCert.days = IF rq[r].body.validityDays = Undef THEN "3650"
                                     ELSE rq[r].body.validityDays

\* C19: the certificate a successful sign-client-cert request returns, and
\* the certificate its certDetails decodes, have the subject of the CSR the
\* request supplied, attribute for attribute and in order.
C19_SubjectOfTheCsr ==
    \A r \in Reqs :
        (Answered(r) /\ rq[r].op = "sign-client-cert" /\ resp[r].status = 200) =>
            /\ rq[r].body.csr.t = "csr"
            /\ resp[r].signedCert.t = "cert"
            /\ resp[r].signedCert.subject = rq[r].body.csr.subject
            /\ resp[r].certDetails.t = "text"
            /\ resp[r].certDetails.of.subject = rq[r].body.csr.subject

\* A field the request does not carry, or carries empty.
Missing(x) == x \in {Undef, ""}
\* The files request r wrote that are on disk.
FilesBy(F, r) == {<<d, f>> \in {<<d, f>> : d \in DOMAIN F, f \in UNION {DOMAIN F[e] : e \in DOMAIN F}} :
                     f \in DOMAIN F[d] /\ F[d][f].by = r}
\* Request r made no directory, wrote no file and ran no command.
Untouched(r) ==
    /\ ~rq[r].staged /\ rq[r].dir = ""
    /\ cmd[r] = NoCommand /\ loc[r] = NoLocals
    /\ FilesBy(fs, r) = {}

\* C14: a generate-broker-csr or generate-root-ca request without Common
\* Name is answered 400 and has produced nothing.
C14_NoCommonNameRejected ==
    \A r \in Reqs :
        (Answered(r) /\ rq[r].op \in {"generate-broker-csr", "generate-root-ca"}
         /\ Missing(rq[r].body.commonName))
            => resp[r].status = 400 /\ Untouched(r)

\* The request lacks an input its operation requires.
LacksRequired(r) ==
    \/ /\ rq[r].op = "generate-csr"
       /\ \E f \in {"commonName", "organization", "country", "state", "locality"} :
              Missing(rq[r].body[f])
    \/ /\ rq[r].op \in SignOps
       /\ \E f \in {"csr", "caKey", "caCert"} : rq[r].body[f] = None

\* C15: a generate-csr request that lacks Common Name, Organization,
\* Country, State or Locality, and a signing request that lacks csr, caKey
\* or caCert, is answered with status 400, never 500.
C15_MissingInputIs400 ==
    \A r \in Reqs : (Answered(r) /\ LacksRequired(r)) => resp[r].status = 400

\* A generate-csr request with an empty field and a signing request without
\* CA certificate were both answered.
C15_Witness ==
    /\ \E r \in Reqs : Answered(r) /\ rq[r].op = "generate-csr"
                       /\ rq[r].body.organization = ""
    /\ \E r \in Reqs : Answered(r) /\ rq[r].op \in SignOps /\ rq[r].body.caCert = None

\* C16: a request answered 400 has made no directory, written no file and
\* run no command, and the step that answers it is its first one and
\* changes nothing on disk.
C16_RejectedBeforeAnyWork ==
    /\ [](\A r \in Reqs : (Answered(r) /\ resp[r].status = 400) => Untouched(r))
    /\ [][\A r \in Reqs : (resp[r].status = 0 /\ resp'[r].status = 400) =>
              (pc[r] = "new" /\ fs' = fs /\ draws' = draws)]_vars

\* A request was rejected while another request of the same operation has
\* its staging directory on disk.
C16_Witness ==
    \E r, q \in Reqs :
        /\ Answered(r) /\ resp[r].status = 400
        /\ InFlight(q) /\ rq[q].op = rq[r].op /\ rq[q].dir \in DOMAIN fs

\* The files a handler's catch block names: all its files but the serial file.
NamedFiles(op) == {paths(op)[k] : k \in DOMAIN paths(op) \ {"serial"}}
\* The step that sends the response of request r, with the given status.
Sends(r, status) == resp[r].status = 0 /\ resp'[r].status = status

\* The last block request r's handler ran was of this kind, and none of its
\* statements is still to run.
Ended(r, kind) == loc[r].block.kind = kind /\ loc[r].block.todo = <<>>

\* C20: a success response is sent by the step that ends the `// Cleanup`
\* block, and it leaves neither the staging directory nor a file of the
\* request; an error response to a staged request is sent by the step that
\* ends the cleanup of the inner catch, each of its statements run or the
\* cleanup given up at the one that threw, and it leaves none of the files
\* that cleanup names as the request wrote it (one that is there was made by
\* another request's process after the statement that removes it); and an
\* answered request takes no further step: its state stays as it is, none of
\* its statements is still to run, no process of it is running, and it
\* writes no file.
C20_ResponseAfterCleanup ==
    /\ [][\A r \in Reqs : Sends(r, 200) =>
              /\ Ended(r, "try")'
              /\ rq[r].dir \notin DOMAIN fs' /\ FilesBy(fs', r) = {}]_vars
    /\ [][\A r \in Reqs : (Sends(r, 500) /\ rq[r].staged) =>
              /\ Ended(r, "catch")'
              /\ \A f \in NamedFiles(rq[r].op) :
                    existsSync(fs', rq[r].dir, f) => fs'[rq[r].dir][f].by # r]_vars
    /\ [][\A r \in Reqs : Answered(r) =>
              /\ pc'[r] = pc[r] /\ resp'[r] = resp[r] /\ cmd'[r] = cmd[r]
              /\ loc'[r] = loc[r] /\ rq'[r] = rq[r]
              /\ loc[r].block.todo = <<>> /\ cmd[r].proc = Idle
              /\ FilesBy(fs', r) \subseteq FilesBy(fs, r)]_vars

\* One staged request was answered 200 and another, staged too, was
\* answered 500: both kinds of response have been sent after staging.
C20_Witness ==
    \E r, q \in Reqs :
        /\ Answered(r) /\ resp[r].status = 200 /\ rq[r].staged
        /\ Answered(q) /\ resp[q].status = 500 /\ rq[q].staged

\* The output fields of each operation's success payload.
OutputFields(op) ==
    CASE op \in {"generate-csr", "generate-broker-csr"} ->
           {"privateKey", "publicKey", "csr", "csrDetails"}
      [] op = "generate-root-ca" -> {"caKey", "caCert", "certDetails"}
      [] op \in SignOps -> {"signedCert", "certDetails"}
\* A success payload with every output field defined, and no error in it.
SuccessPayload(op, x) ==
    /\ x.status = 200 /\ "error" \notin DOMAIN x
    /\ OutputFields(op) \subseteq DOMAIN x
    /\ \A f \in OutputFields(op) : x[f].t # "none"
\* A single error object: an error, possibly its message, and nothing else.
ErrorObject(x) ==
    /\ x.status \in {400, 500}
    /\ "error" \in DOMAIN x /\ DOMAIN x \subseteq {"status", "error", "message"}
\* No request is waiting for its response.
Quiet == \A r \in Reqs : pc[r] \in {"new", "done"}

\* C17: a request has a response exactly when its handler is over, the
\* response is a complete success payload or a single error object, it
\* never changes once sent, and, the commands the server starts running
\* on to their end, from some time on every request that has arrived is
\* answered.
C17_ExactlyOneResponse ==
    /\ [](\A r \in Reqs :
            /\ Answered(r) <=> resp[r] # NoResponse
            /\ Answered(r) => \/ SuccessPayload(rq[r].op, resp[r])
                              \/ ErrorObject(resp[r]))
    /\ [][\A r \in Reqs : resp[r] # NoResponse => resp'[r] = resp[r]]_vars
    /\ <>[]Quiet

\* Every request has been answered, one with a success payload after its
\* commands ran and one with an error after a command failed.
C17_Witness ==
    /\ \A r \in Reqs : Answered(r)
    /\ \E r \in Reqs : resp[r].status = 200 /\ cmd[r] # NoCommand
    /\ \E r \in Reqs : resp[r].status = 500 /\ cmd[r] # NoCommand

\* The directories whose existence or content a step changes.
Touched == {d \in DOMAIN fs \cup DOMAIN fs' :
               \/ d \notin DOMAIN fs \/ d \notin DOMAIN fs'
               \/ fs'[d] # fs[d]}
\* Request r takes the step.
Acts(r) == pc'[r] # pc[r] \/ cmd'[r] # cmd[r]

\* C21: two staged requests of different operations never have the same
\* staging directory, at whatever time they start; every file is in the
\* directory of the request that wrote it; and a step of a request creates,
\* writes and deletes only in that request's own directory, which no
\* request of another operation has.
C21_OperationsKeepApart ==
    /\ [](\A r, q \in Reqs :
            (rq[r].staged /\ rq[q].staged /\ rq[r].op # rq[q].op) => rq[r].dir # rq[q].dir)
    /\ [](\A r \in Reqs : \A x \in FilesBy(fs, r) : x[1] = rq[r].dir)
    /\ [][\A r \in Reqs : Acts(r) =>
              \A d \in Touched :
                  /\ d = rq'[r].dir
                  /\ \A q \in Reqs : (rq[q].staged /\ rq[q].dir = d) => rq[q].op = rq'[r].op]_vars

\* Two requests of different operations, staged in the same millisecond,
\* are in flight with files in their directories.
C21_Witness ==
    \E r, q \in Reqs : \E now \in 0..MaxClock :
        /\ rq[r].op # rq[q].op /\ InFlight(r) /\ InFlight(q)
        /\ rq[r].staged /\ rq[r].dir = tempDir(rq[r].op, now)
        /\ rq[q].staged /\ rq[q].dir = tempDir(rq[q].op, now)
        /\ FilesBy(fs, r) # {} /\ FilesBy(fs, q) # {}

====
